---- MODULE Spec2Model ----
(***************************************************************************)
(* Model of the interbank contagion simulator of src/app.js: the network   *)
(* generator (generateNetwork), the DebtRank engine (runSimulation) and    *)
(* the dashboard refresh that every run ends with                          *)
(* (updateMetricsDashboard).                                               *)
(*                                                                         *)
(* Numbers.  The program computes in IEEE doubles; the model computes in   *)
(* fixed point.  Money fixed at creation (A, E_initial, L, L_interbank,    *)
(* A_interbank, A_external, adj) is held in whole currency units.  Every   *)
(* fraction (capital ratio, loss factor, debtRank) is held in units of     *)
(* 1/Scale, so debtRank 1.0 is Scale and DEBT_RANK_TOLERANCE is 1.  The    *)
(* current capital E is held in units of 1/Scale currency units, which     *)
(* makes E = E_initial * (1 - debtRank) exact.  Divisions round down.      *)
(***************************************************************************)
EXTENDS Integers, Sequences, FiniteSets, TLC

\* ---------------------------------------------------------------------
\* Bounds of the model
\* ---------------------------------------------------------------------
\* Number of banks of the main specification (the program's N is 50).
NBanks == 5
\* Number of seeds of the random source that a generation or a run may draw
\* from.
NumSeeds == 3
\* Math.random() returns one of 0/RandRes .. (RandRes-1)/RandRes.
RandRes == 8
\* Number of runs modelled on one generated network.
MaxRuns == 2

\* ---------------------------------------------------------------------
\* Program constants (src/app.js:19-25), in the units described above
\* ---------------------------------------------------------------------
Scale == 10000
MACRO_LOSS_FACTOR == 2000
MIN_CAPITAL_RATIO == 800
MAX_CAPITAL_RATIO == 1500
ASSETS_MIN == 1000
ASSETS_MAX == 5000
DEBT_RANK_TOLERANCE == 1
MAX_ITERATIONS == 100
\* 0.9999, the rank from which the end-of-pass re-evaluation forces failure.
FAIL_RANK == 9999
\* 0.4 and 0.5, the Stressed thresholds of the re-evaluation and of Phase 1.
STRESS_RANK == 4000
PHASE1_STRESS_RANK == 5000
\* node.E = -1, the capital forced on the targeted bank, in units of 1/Scale.
TARGETED_E == 0 - Scale
\* node.E_initial * 0.8, the loss of a bank hit by the random shock.
RANDOM_LOSS == 8000
\* parseInt of a select without options: NaN, equal to no bank id.
NaN == 0 - 1
\* null, the value of selectedBankId while no bank is selected.
Null == 0 - 2

VARIABLES
  N,                    \* const N: the bank count the program is built with
  network,              \* network.nodes and network.adj (links are rendering data)
  totalInitialCapital,
  selectedBankId,       \* the id of the bank shown in the details modal
  simulateBtnDisabled,  \* DOM.simulateBtn.disabled
  shockType,            \* DOM.shockType.value read by the current/last run
  targetedBankId,       \* parseInt(DOM.targetedBankId.value) of that run
  hit,                  \* ids for which Math.random() < 0.1 held in that run
  nodes,                \* runSimulation's working copy
  initialRanks,
  previousRanks,
  iterations,
  hasConverged,
  totalDebtRankChange,
  runs,                 \* runs executed since the network was generated
  pc                    \* position inside runSimulation, "idle" outside it

vars == <<N, network, totalInitialCapital, selectedBankId,
          simulateBtnDisabled, shockType,
          targetedBankId, hit, nodes, initialRanks, previousRanks, iterations,
          hasConverged, totalDebtRankChange, runs, pc>>

\* ---------------------------------------------------------------------
\* Utilities
\* ---------------------------------------------------------------------
Min(a, b) == IF a < b THEN a ELSE b
Max(a, b) == IF a > b THEN a ELSE b
Abs(a) == IF a < 0 THEN 0 - a ELSE a

clamp(num, lo, hi) == Min(Max(num, lo), hi)

Ids(n) == 0 .. (n - 1)

\* The array whose slot k holds f[k], every slot computed once (f @@ <<>>
\* is f).
Array(f) == f @@ <<>>

\* ---------------------------------------------------------------------
\* The random source.  Math.random() is modelled by a seeded generator:
\* Random(seed, k) is the k-th draw of a generation or of a run made with
\* that seed.
\* ---------------------------------------------------------------------
Mix(x) == (x * x + 12345) % 32749

RandState(seed, k) ==
  Mix(Mix(((seed + 77) * 7919 + k * 1237) % 32749) + k)

Random(seed, k) == (RandState(seed, k) \div 7) % RandRes

\* Position on the tape of the draws of bank i: two draws in the first loop,
\* then per debtor one for the fraction, one for the creditor count, n - 1
\* for the shuffle and up to four for the shares.
DrawA(n, i) == 2 * i
DrawRatio(n, i) == 2 * i + 1
DrawBase(n, i) == 2 * n + i * (n + 5)
DrawIBL(n, i) == DrawBase(n, i)
DrawNumCreditors(n, i) == DrawBase(n, i) + 1
DrawShuffle(n, i, m) == DrawBase(n, i) + 1 + m
DrawShare(n, i, c) == DrawBase(n, i) + n + c
DrawShock(n, k) == DrawBase(n, n) + k

\* ---------------------------------------------------------------------
\* generateNetwork
\* ---------------------------------------------------------------------
\* Lines 316-337: the balance sheet of bank i.
NewNode(n, seed, i) ==
  LET totalAssets ==
        (Random(seed, DrawA(n, i)) * (ASSETS_MAX - ASSETS_MIN)) \div RandRes
          + ASSETS_MIN
      capitalRatio ==
        (Random(seed, DrawRatio(n, i)) * (MAX_CAPITAL_RATIO - MIN_CAPITAL_RATIO))
          \div RandRes + MIN_CAPITAL_RATIO
      E == (totalAssets * capitalRatio) \div Scale
  IN [id |-> i, A |-> totalAssets, E_initial |-> E, E |-> E * Scale,
      L |-> totalAssets - E, isFailed |-> FALSE, debtRank |-> 0,
      stressLevel |-> 0, L_interbank |-> 0, A_interbank |-> 0,
      A_external |-> 0]

\* Line 344: debtor.L * (0.15 + Math.random() * 0.15).
TotalIBL(n, seed, i) ==
  (NewNode(n, seed, i).L * (1500 + (Random(seed, DrawIBL(n, i)) * 1500) \div RandRes))
    \div Scale

\* Line 348: Math.floor(Math.random() * 4) + 1.
NumCreditors(n, seed, i) ==
  (Random(seed, DrawNumCreditors(n, i)) * 4) \div RandRes + 1

\* Line 349: nodes.filter(n => n.id !== debtor.id), as the sequence of ids.
RECURSIVE PotentialCreditorsFrom(_, _, _)
PotentialCreditorsFrom(n, i, k) ==
  IF k >= n THEN <<>>
  ELSE IF k = i THEN PotentialCreditorsFrom(n, i, k + 1)
  ELSE <<k>> \o PotentialCreditorsFrom(n, i, k + 1)

PotentialCreditors(n, i) == PotentialCreditorsFrom(n, i, 0)

\* Line 351: d3.shuffle, the Fisher-Yates shuffle of d3-array: while (m)
\* { i = random() * m-- | 0; swap array[m], array[i] }.  Sequences are
\* 1-based, so the 0-based slots m and i are m + 1 and i + 1.
RECURSIVE ShuffleFrom(_, _, _, _, _)
ShuffleFrom(array, m, n, seed, debtor) ==
  IF m = 0 THEN array
  ELSE LET i == (Random(seed, DrawShuffle(n, debtor, m)) * m) \div RandRes
           swapped == [array EXCEPT ![m] = array[i + 1], ![i + 1] = array[m]]
       IN ShuffleFrom(swapped, m - 1, n, seed, debtor)

Shuffle(array, n, seed, debtor) == ShuffleFrom(array, Len(array), n, seed, debtor)

\* Line 351: .slice(0, numCreditors).
Slice(array, k) == SubSeq(array, 1, Min(k, Len(array)))

\* Line 352: totalIBL * (Math.random() * 0.4 + 0.1).
RawShare(n, seed, i, c) ==
  (TotalIBL(n, seed, i) * ((Random(seed, DrawShare(n, i, c)) * 4000) \div RandRes + 1000))
    \div Scale

\* The share without the clamp of line 353.
LiabilityShareUnclamped(raw, totalIBL, assignedLiability) == raw

\* Line 353: the share is clamped to what is left of totalIBL.
LiabilityShare(raw, totalIBL, assignedLiability) ==
  Min(raw, totalIBL - assignedLiability)

\* Lines 351-359: the shares of the chosen creditors, assigned in order.
RECURSIVE AssignShares(_, _, _, _, _, _, _)
AssignShares(row, creditors, c, assignedLiability, n, seed, i) ==
  IF c > Len(creditors) THEN row
  ELSE LET liabilityShare ==
             LiabilityShare(RawShare(n, seed, i, c), TotalIBL(n, seed, i),
                            assignedLiability)
       IN IF liabilityShare > 0
          THEN AssignShares([row EXCEPT ![creditors[c]] = liabilityShare],
                            creditors, c + 1,
                            assignedLiability + liabilityShare, n, seed, i)
          ELSE AssignShares(row, creditors, c + 1, assignedLiability, n, seed, i)

\* Lines 339-360: row i of the adjacency matrix.
AdjRow(n, seed, i) ==
  AssignShares(Array([j \in Ids(n) |-> 0]),
               Slice(Shuffle(PotentialCreditors(n, i), n, seed, i),
                     NumCreditors(n, seed, i)),
               1, 0, n, seed, i)

NewAdj(n, seed) == Array([i \in Ids(n) |-> AdjRow(n, seed, i)])

RECURSIVE ColumnSum(_, _, _, _)
ColumnSum(adj, n, id, j) ==
  IF j >= n THEN 0 ELSE adj[j][id] + ColumnSum(adj, n, id, j + 1)

\* Lines 343-372: interbank liabilities and assets of every bank.
NewNodes(n, seed, adj) ==
  Array([i \in Ids(n) |->
    LET node == NewNode(n, seed, i)
        aib == ColumnSum(adj, n, i, 0)
    IN [node EXCEPT !.L_interbank = TotalIBL(n, seed, i),
                    !.A_interbank = aib,
                    !.A_external = node.A - aib]])

RECURSIVE SumEInitial(_, _)
SumEInitial(ns, k) ==
  IF k < 0 THEN 0 ELSE ns[k].E_initial + SumEInitial(ns, k - 1)

\* Line 531: nodes.sort((a, b) => b.debtRank - a.debtRank), a stable sort:
\* the slot of the node at k is the number of nodes that sort before it.
SortSlot(ns, k) ==
  Cardinality({m \in DOMAIN ns :
                 \/ ns[m].debtRank > ns[k].debtRank
                 \/ ns[m].debtRank = ns[k].debtRank /\ m < k})

SortByDebtRank(ns) ==
  Array([p \in DOMAIN ns |-> ns[CHOOSE k \in DOMAIN ns : SortSlot(ns, k) = p]])

\* ---------------------------------------------------------------------
\* Initial state: the module state of lines 42-44 and init (lines 619-640)
\* ---------------------------------------------------------------------
\* The run control left enabled when the page is set up.
InitialSimulateBtnEnabled == FALSE

\* Line 635: the run control is disabled when the page is set up.
InitialSimulateBtnDisabled == TRUE

NoRun ==
  /\ shockType = "macro"
  /\ targetedBankId = NaN
  /\ hit = {}
  /\ nodes = <<>>
  /\ initialRanks = <<>>
  /\ previousRanks = <<>>
  /\ iterations = 0
  /\ hasConverged = FALSE
  /\ totalDebtRankChange = 0
  /\ runs = 0
  /\ pc = "idle"

InitState ==
  /\ network = [nodes |-> <<>>, adj |-> <<>>]
  /\ totalInitialCapital = 0
  /\ selectedBankId = Null
  /\ simulateBtnDisabled = InitialSimulateBtnDisabled
  /\ NoRun

Init == N = NBanks /\ InitState

\* Lines 315-372: the matrix and the bank list generateNetwork builds, for
\* every bank count and every run of draws; a table, so that each network
\* is computed once.
Generated ==
  Array([n \in 0 .. NBanks |->
    Array([seed \in 0 .. (NumSeeds - 1) |->
      LET adj == NewAdj(n, seed)
      IN [adj |-> adj, nodes |-> NewNodes(n, seed, adj)]])])

\* The running total carried over from the network generated before.
KeepTotalInitialCapital(total) == total

\* Line 313: generateNetwork starts its total of E_initial from zero.
ResetTotalInitialCapital(total) == 0

\* generateNetwork, lines 311-384.  The locals of an earlier run are dead
\* once a run has returned; the model clears its record of them here.
GenerateNetwork ==
  /\ pc = "idle"
  /\ \E seed \in 0 .. (NumSeeds - 1) :
       LET adj == Generated[N][seed].adj
           ns == Generated[N][seed].nodes
       IN /\ network' = [nodes |-> SortByDebtRank(ns), adj |-> adj]
          /\ totalInitialCapital' =
               ResetTotalInitialCapital(totalInitialCapital)
                 + SumEInitial(ns, N - 1)
  /\ simulateBtnDisabled' = FALSE
  /\ selectedBankId' = Null
  /\ shockType' = "macro"
  /\ targetedBankId' = NaN
  /\ hit' = {}
  /\ nodes' = <<>>
  /\ initialRanks' = <<>>
  /\ previousRanks' = <<>>
  /\ iterations' = 0
  /\ hasConverged' = FALSE
  /\ totalDebtRankChange' = 0
  /\ runs' = 0
  /\ pc' = "idle"
  /\ UNCHANGED N

\* Lines 187 and 558: the click handlers that call selectBank exist for the
\* banks of network.nodes only.  The clicks taken here are those on bank 0;
\* no other state depends on which bank is chosen.
ClickedIds(ns) == {ns[k].id : k \in DOMAIN ns} \cap {0}

\* selectBank, lines 488-513.  The modal and the highlight are rendering.
SelectBank ==
  /\ pc = "idle"
  /\ network.nodes # <<>>
  /\ \E bankId \in ClickedIds(network.nodes) : selectedBankId' = bankId
  /\ UNCHANGED <<N, network, totalInitialCapital, simulateBtnDisabled,
                 shockType, targetedBankId, hit, nodes, initialRanks,
                 previousRanks, iterations, hasConverged,
                 totalDebtRankChange, runs, pc>>

\* ---------------------------------------------------------------------
\* runSimulation
\* ---------------------------------------------------------------------
\* Line 389: the working copy, in the order network.nodes has.
WorkingCopy(initialNodes) ==
  Array([k \in DOMAIN initialNodes |->
    [initialNodes[k] EXCEPT !.E = initialNodes[k].E_initial * Scale,
                            !.isFailed = FALSE,
                            !.debtRank = 0,
                            !.stressLevel = 0]])

\* The macro loss taken on the total assets instead of the external assets.
ShockedEOnTotalAssets(node, type, target, hitIds) ==
  IF type = "macro" THEN node.E - node.A * MACRO_LOSS_FACTOR
  ELSE IF type = "targeted" /\ node.id = target THEN TARGETED_E
  ELSE IF type = "random" /\ node.id \in hitIds
       THEN node.E - node.E_initial * RANDOM_LOSS
  ELSE node.E

\* Lines 395-401: the capital of one bank after the initial shock.
ShockedE(node, type, target, hitIds) ==
  IF type = "macro" THEN node.E - node.A_external * MACRO_LOSS_FACTOR
  ELSE IF type = "targeted" /\ node.id = target THEN TARGETED_E
  ELSE IF type = "random" /\ node.id \in hitIds
       THEN node.E - node.E_initial * RANDOM_LOSS
  ELSE node.E

\* Line 399: the ids of the banks for which Math.random() < 0.1 holds, one
\* draw per bank in the order of the working copy.
HitIds(ns, n, seed) ==
  {ns[k].id : k \in {m \in DOMAIN ns : Random(seed, DrawShock(n, m)) * 10 < RandRes}}

\* Line 408: clamp(1 - (node.E / node.E_initial), 0, 1).
InitialRank(E, E_initial) == clamp(Scale - (E \div E_initial), 0, Scale)

\* Lines 403-411: the status of one bank after the initial shock.
Phase1Node(node, type, target, hitIds) ==
  LET E == ShockedE(node, type, target, hitIds)
  IN IF E <= 0
     THEN [node EXCEPT !.E = E, !.isFailed = TRUE, !.stressLevel = 2,
                       !.debtRank = Scale]
     ELSE LET initialRank == InitialRank(E, node.E_initial)
          IN [node EXCEPT !.E = E, !.debtRank = initialRank,
                          !.stressLevel =
                            IF initialRank >= PHASE1_STRESS_RANK THEN 1 ELSE 0]

\* Lines 394-413: Phase 1 over the working copy.
Phase1(ns, type, target, hitIds) ==
  Array([k \in DOMAIN ns |-> Phase1Node(ns[k], type, target, hitIds)])

\* Lines 391 and 412: initialRanks[node.id] = node.debtRank, over an array
\* of zeros as long as nodes.
InitialRanks(ns) ==
  Array([i \in DOMAIN ns |->
    IF \E k \in DOMAIN ns : ns[k].id = i
    THEN ns[CHOOSE k \in DOMAIN ns : ns[k].id = i].debtRank
    ELSE 0])

\* Line 424: nodes.map(n => n.debtRank).
CurrentRanks(ns) == Array([k \in DOMAIN ns |-> ns[k].debtRank])

\* Lines 432-439: the loss ratio that the debtors i .. n-1 propagate to the
\* creditor j.  adj is indexed by the loop counters, as are nodes,
\* currentRanks and previousRanks.
RECURSIVE PropagatedFrom(_, _, _, _, _, _, _)
PropagatedFrom(ns, adj, currentRanks, prevRanks, n, j, i) ==
  IF i >= n THEN 0
  ELSE LET L_ij == adj[i][j]
           term == IF L_ij > 0 /\ ns[i].L_interbank > 0
                   THEN (L_ij * (currentRanks[i] - prevRanks[i]))
                          \div ns[i].L_interbank
                   ELSE 0
       IN term + PropagatedFrom(ns, adj, currentRanks, prevRanks, n, j, i + 1)

\* The rank update clamped to [0, 1] instead of [debtRank, 1].
NewRankFromZero(debtRank, propagatedLossRatio) ==
  LET rankIncrease == ((Scale - debtRank) * propagatedLossRatio) \div Scale
  IN clamp(debtRank + rankIncrease, 0, Scale)

\* Lines 442-443: the new rank of the creditor at j.
NewRank(debtRank, propagatedLossRatio) ==
  LET rankIncrease == ((Scale - debtRank) * propagatedLossRatio) \div Scale
  IN clamp(debtRank + rankIncrease, debtRank, Scale)

NewRankOf(ns, adj, prevRanks, n, j) ==
  IF ns[j].debtRank < Scale
  THEN NewRank(ns[j].debtRank,
               PropagatedFrom(ns, adj, CurrentRanks(ns), prevRanks, n, j, 0))
  ELSE ns[j].debtRank

\* A change counted from the tolerance on.
CountsFromTolerance(newRank, debtRank) ==
  Abs(newRank - debtRank) >= DEBT_RANK_TOLERANCE

\* Line 446: the change of one bank counts when it exceeds the tolerance.
Counts(newRank, debtRank) == Abs(newRank - debtRank) > DEBT_RANK_TOLERANCE

RECURSIVE ChangeFrom(_, _, _, _, _, _)
ChangeFrom(ns, adj, prevRanks, n, j, acc) ==
  IF j >= n THEN acc
  ELSE LET newRank == NewRankOf(ns, adj, prevRanks, n, j)
       IN ChangeFrom(ns, adj, prevRanks, n, j + 1,
                     IF Counts(newRank, ns[j].debtRank)
                     THEN acc + Abs(newRank - ns[j].debtRank) ELSE acc)

\* Lines 427-452: the rank of every creditor after the pass.
UpdatedRanks(ns, adj, prevRanks, n) ==
  Array([k \in DOMAIN ns |->
    IF k < n THEN [ns[k] EXCEPT !.debtRank = NewRankOf(ns, adj, prevRanks, n, k)]
    ELSE ns[k]])

\* The re-evaluation skipping the banks that Phase 1 already failed.
ReEvaluatedSkipFailed(node) ==
  IF node.isFailed THEN node
  ELSE LET E == node.E_initial * (Scale - node.debtRank)
       IN IF E <= 0 \/ node.debtRank >= FAIL_RANK
          THEN [node EXCEPT !.isFailed = TRUE, !.stressLevel = 2,
                            !.debtRank = Scale, !.E = 0]
          ELSE [node EXCEPT !.E = E,
                            !.stressLevel =
                              IF node.debtRank > STRESS_RANK THEN 1 ELSE 0]

\* The re-evaluation leaving a surviving bank the stress level of Phase 1.
ReEvaluatedKeepingStress(node) ==
  LET E == node.E_initial * (Scale - node.debtRank)
  IN IF E <= 0 \/ node.debtRank >= FAIL_RANK
     THEN [node EXCEPT !.isFailed = TRUE, !.stressLevel = 2,
                       !.debtRank = Scale, !.E = 0]
     ELSE [node EXCEPT !.E = E]

\* Lines 457-469: capital and status of one bank at the end of a pass.
ReEvaluated(node) ==
  LET E == node.E_initial * (Scale - node.debtRank)
  IN IF E <= 0 \/ node.debtRank >= FAIL_RANK
     THEN [node EXCEPT !.isFailed = TRUE, !.stressLevel = 2,
                       !.debtRank = Scale, !.E = 0]
     ELSE [node EXCEPT !.E = E,
                       !.stressLevel = IF node.debtRank > STRESS_RANK THEN 1 ELSE 0]

\* The loop started from all-zero previous ranks.
PreviousRanksFromZero(ranks) == Array([id \in DOMAIN ranks |-> 0])

\* Line 418: previousRanks = [...initialRanks].
StartingPreviousRanks(ranks) == ranks

\* The flag initialised as converged.
InitialHasConvergedTrue == TRUE

\* Lines 416-417: the flag the loop starts with.
InitialHasConverged == FALSE

\* Line 420: the loop condition.
LoopContinues(converged, iters) == ~converged /\ iters < MAX_ITERATIONS

\* Lines 386-418: the working copy, Phase 1 and the loop variables.
RunSimulation ==
  /\ pc = "idle"
  /\ ~simulateBtnDisabled
  /\ runs < MaxRuns
  /\ \E type \in {"macro", "targeted", "random"} :
     \E target \in (IF N > 0 THEN Ids(N) ELSE {NaN}) :
     \E seed \in 0 .. (NumSeeds - 1) :
     LET hitIds == IF type = "random" THEN HitIds(network.nodes, N, seed) ELSE {}
     IN
       /\ type # "targeted" => target = (IF N > 0 THEN 0 ELSE NaN)
       /\ shockType' = type
       /\ targetedBankId' = target
       /\ hit' = hitIds
       /\ nodes' = Phase1(WorkingCopy(network.nodes), type, target, hitIds)
  /\ initialRanks' = InitialRanks(nodes')
  /\ previousRanks' = StartingPreviousRanks(initialRanks')
  /\ iterations' = 0
  /\ hasConverged' = InitialHasConverged
  /\ totalDebtRankChange' = 0
  /\ runs' = runs + 1
  /\ pc' = "loop"
  /\ UNCHANGED <<N, network, totalInitialCapital, selectedBankId,
                 simulateBtnDisabled>>

\* Lines 420-454: the head of a pass and the rank update of every creditor.
RankUpdate ==
  /\ pc = "loop"
  /\ LoopContinues(hasConverged, iterations)
  /\ iterations' = iterations + 1
  /\ totalDebtRankChange' =
       ChangeFrom(nodes, network.adj, previousRanks, N, 0, 0)
  /\ hasConverged' =
       (\A j \in Ids(N) :
          ~Counts(NewRankOf(nodes, network.adj, previousRanks, N, j),
                  nodes[j].debtRank))
  /\ nodes' = UpdatedRanks(nodes, network.adj, previousRanks, N)
  /\ previousRanks' = CurrentRanks(nodes)
  /\ pc' = "reeval"
  /\ UNCHANGED <<N, network, totalInitialCapital, selectedBankId,
                 simulateBtnDisabled, shockType, targetedBankId, hit,
                 initialRanks, runs>>

\* Lines 456-473: the end of a pass.
ReEvaluate ==
  /\ pc = "reeval"
  /\ nodes' = Array([k \in DOMAIN nodes |-> ReEvaluated(nodes[k])])
  /\ hasConverged' =
       (hasConverged \/ totalDebtRankChange < DEBT_RANK_TOLERANCE)
  /\ pc' = "loop"
  /\ UNCHANGED <<N, network, totalInitialCapital, selectedBankId,
                 simulateBtnDisabled, shockType, targetedBankId, hit,
                 initialRanks, previousRanks, iterations,
                 totalDebtRankChange, runs>>

\* Lines 476-482: network.nodes = nodes, then renderNetwork(false), whose
\* updateMetricsDashboard sorts network.nodes in place (line 531); nodes is
\* that same array.
Finalize ==
  /\ pc = "loop"
  /\ ~LoopContinues(hasConverged, iterations)
  /\ network' = [network EXCEPT !.nodes = SortByDebtRank(nodes)]
  /\ nodes' = network'.nodes
  /\ pc' = "idle"
  /\ UNCHANGED <<N, totalInitialCapital, selectedBankId,
                 simulateBtnDisabled, shockType, targetedBankId, hit, initialRanks, previousRanks, iterations,
                 hasConverged, totalDebtRankChange, runs>>

\* ---------------------------------------------------------------------
\* A whole run as a function of the snapshot and the shock
\* ---------------------------------------------------------------------
\* Lines 420-474: one pass of the loop over the loop variables.
Pass(st, adj, n) ==
  LET updated == UpdatedRanks(st.nodes, adj, st.previousRanks, n)
      change == ChangeFrom(st.nodes, adj, st.previousRanks, n, 0, 0)
      unchanged == \A j \in Ids(n) :
                     ~Counts(updated[j].debtRank, st.nodes[j].debtRank)
  IN [nodes |-> Array([k \in DOMAIN updated |-> ReEvaluated(updated[k])]),
      previousRanks |-> CurrentRanks(st.nodes),
      iterations |-> st.iterations + 1,
      hasConverged |-> (unchanged \/ change < DEBT_RANK_TOLERANCE)]

\* Lines 416-474: the loop, from the loop variables st to those at its exit.
RECURSIVE Phase2(_, _, _)
Phase2(st, adj, n) ==
  IF LoopContinues(st.hasConverged, st.iterations)
  THEN Phase2(Pass(st, adj, n), adj, n)
  ELSE st

\* Lines 416-418: the loop variables the loop starts with, for the ranks h0.
LoopStart(ns, h0) ==
  [nodes |-> ns, previousRanks |-> StartingPreviousRanks(h0),
   iterations |-> 0, hasConverged |-> InitialHasConverged]

\* Lines 386-474: the nodes a run ends with, for a shock without draws.
RunResult(initialNodes, adj, n, type, target) ==
  LET ns == Phase1(WorkingCopy(initialNodes), type, target, {})
  IN Phase2(LoopStart(ns, InitialRanks(ns)), adj, n).nodes

\* The bank with the given id.
NodeById(ns, id) == ns[CHOOSE k \in DOMAIN ns : ns[k].id = id]

\* The snapshot as generateNetwork built it from the balance sheets that
\* runs never change: the bank with id k at position k, lines 324-336.
AsGenerated(ns) ==
  Array([k \in DOMAIN ns |->
    [NodeById(ns, k) EXCEPT !.E = NodeById(ns, k).E_initial * Scale,
                            !.isFailed = FALSE,
                            !.debtRank = 0,
                            !.stressLevel = 0]])

\* The per-bank outcome of a run.
Outcome(node) ==
  [debtRank |-> node.debtRank, E |-> node.E, isFailed |-> node.isFailed,
   stressLevel |-> node.stressLevel]

RunDone == pc = "idle" /\ runs > 0

\* ---------------------------------------------------------------------
\* Claims
\* ---------------------------------------------------------------------

\* C1: runSimulation does not mutate the network snapshot it consumes:
\* while a run executes, no step changes network (the bank list with its
\* order and each bank's E, debtRank, isFailed, stressLevel, and adj).
C1_SnapshotNotMutated == [][pc # "idle" => network' = network]_vars

\* C2: repeated runs on one generated network are independent: the per-bank
\* result of a run with a macro or targeted shock equals the result of that
\* shock on the network as generated, whatever runs came before.
C2_RunsIndependent ==
  (RunDone /\ shockType \in {"macro", "targeted"}) =>
    \A id \in Ids(N) :
      Outcome(NodeById(network.nodes, id)) =
        Outcome(NodeById(RunResult(AsGenerated(network.nodes), network.adj, N,
                                   shockType, targetedBankId), id))

\* The scenario of C3 after the rank update of pass 1 of the first run on a
\* network as generated: bank 0 owes to bank 1 only, and bank 0 is targeted.
C3_Scenario ==
  /\ pc = "reeval"
  /\ iterations = 1
  /\ runs = 1
  /\ N >= 5
  /\ shockType = "targeted"
  /\ targetedBankId = 0
  /\ network.adj[0][1] > 0
  /\ \A k \in Ids(N) \ {1} : network.adj[0][k] = 0

\* C3: in that scenario bank 0 is Failed with debtRank 1.0 after Phase 1,
\* pass 1 raises the debtRank of bank 1 by a strictly positive amount, and
\* banks 2 .. N-1 stay at debtRank 0.
C3_TargetedPropagates ==
  C3_Scenario =>
    /\ initialRanks[0] = Scale
    /\ nodes[0].isFailed
    /\ nodes[1].debtRank > initialRanks[1]
    /\ \A k \in 2 .. (N - 1) : nodes[k].debtRank = 0

\* C4: during Phase 2 of any run, for every shock type and every bank,
\* debtRank never decreases: after each rank update and after each
\* end-of-pass re-evaluation it is at least what it was before, and it never
\* exceeds 1.0.
C4_RankMonotone ==
  [][(pc \in {"loop", "reeval"} /\ pc' \in {"loop", "reeval"}) =>
       \A k \in DOMAIN nodes :
         /\ nodes[k].debtRank <= nodes'[k].debtRank
         /\ nodes'[k].debtRank <= Scale]_vars

\* A rank update of a run on a network that an earlier run has stored: it
\* raised the rank of one bank and left a bank below 1.0 where it was.
C4_Witness ==
  /\ pc = "reeval"
  /\ runs = 2
  /\ \E k \in DOMAIN nodes : nodes[k].debtRank > previousRanks[k]
  /\ \E k \in DOMAIN nodes :
       nodes[k].debtRank = previousRanks[k] /\ nodes[k].debtRank < Scale

\* C5: in the result of any run, every bank whose debtRank is 1.0 has
\* isFailed true and E 0, the targeted bank included.
C5_FullRankIsFailed ==
  RunDone =>
    \A k \in DOMAIN network.nodes :
      network.nodes[k].debtRank = Scale =>
        network.nodes[k].isFailed /\ network.nodes[k].E = 0

\* The result of a targeted run: the targeted bank has debtRank 1.0.
C5_Witness ==
  /\ RunDone
  /\ shockType = "targeted"
  /\ \E k \in DOMAIN network.nodes :
       /\ network.nodes[k].id = targetedBankId
       /\ network.nodes[k].debtRank = Scale

RECURSIVE RowSumFrom(_, _, _, _)
RowSumFrom(adj, n, i, j) ==
  IF j >= n THEN 0 ELSE adj[i][j] + RowSumFrom(adj, n, i, j + 1)

RowSum(adj, n, i) == RowSumFrom(adj, n, i, 0)

C7_AdjWellFormed ==
  \A i \in DOMAIN network.adj :
    /\ network.adj[i][i] = 0
    /\ \A j \in DOMAIN network.adj[i] : network.adj[i][j] >= 0
    /\ RowSum(network.adj, N, i) <= NodeById(network.nodes, i).L_interbank

\* A generated network with a debtor whose shares were cut to what was left
\* of its L_interbank and a debtor whose row sum stays below its L_interbank.
C7_Witness ==
  /\ N >= 4
  /\ network.nodes # <<>>
  /\ \E i \in DOMAIN network.adj :
       /\ Cardinality({j \in Ids(N) : network.adj[i][j] > 0}) >= 3
       /\ RowSum(network.adj, N, i) = NodeById(network.nodes, i).L_interbank
  /\ \E i \in DOMAIN network.adj :
       RowSum(network.adj, N, i) < NodeById(network.nodes, i).L_interbank

\* C8: generateNetwork rejects a bank count below 2: no network is produced
\* or stored.
C8_SmallNRejected == N < 2 => network.nodes = <<>>

\* The state right after Phase 1 of a run.
AfterPhase1 == pc = "loop" /\ iterations = 0

\* C9: under a macro shock the capital of every bank after Phase 1 is
\* E0 - A_external * 0.20; the bank is Failed with debtRank 1.0 exactly when
\* that is <= 0, and otherwise its debtRank is clamp(1 - E/E0, 0, 1).
C9_MacroPhase1 ==
  (AfterPhase1 /\ shockType = "macro") =>
    \A k \in DOMAIN nodes :
      LET e == nodes[k].E_initial * Scale - (nodes[k].A_external * Scale) \div 5
      IN /\ nodes[k].E = e
         /\ nodes[k].isFailed <=> e <= 0
         /\ e <= 0 => nodes[k].debtRank = Scale /\ nodes[k].stressLevel = 2
         /\ e > 0 => nodes[k].debtRank =
                       Min(Max(Scale - e \div nodes[k].E_initial, 0), Scale)

\* Phase 1 of a macro shock with a bank that fails and a bank that survives
\* with a rank strictly between 0 and 1.
C9_Witness ==
  /\ AfterPhase1
  /\ shockType = "macro"
  /\ \E k \in DOMAIN nodes : nodes[k].isFailed /\ nodes[k].E < 0
  /\ \E k \in DOMAIN nodes :
       ~nodes[k].isFailed /\ nodes[k].debtRank > 0 /\ nodes[k].debtRank < Scale

\* The loop has ended with the convergence flag set.
ConvergedExit ==
  pc = "loop" /\ ~LoopContinues(hasConverged, iterations) /\ hasConverged

\* C10: starting Phase 2 again from the ranks of a converged result, used
\* as h0 with no further shock, changes no debtRank by more than
\* DEBT_RANK_TOLERANCE.
C10_Phase2Idempotent ==
  ConvergedExit =>
    LET again == Phase2(LoopStart(nodes, InitialRanks(nodes)), network.adj, N).nodes
    IN \A k \in DOMAIN nodes :
         Abs(again[k].debtRank - nodes[k].debtRank) <= DEBT_RANK_TOLERANCE

\* The state generateNetwork leaves: the bank with id k at position k, at
\* full capital, unranked, not failed and Healthy; the capital total of
\* these banks alone; the exposures of one fresh draw, which are the
\* interbank assets of these banks; no bank selected.
Fresh(nw, total, selected, n) ==
  /\ DOMAIN nw.nodes = Ids(n)
  /\ \A k \in DOMAIN nw.nodes :
       LET node == nw.nodes[k]
       IN /\ node.id = k
          /\ node.E = node.E_initial * Scale
          /\ node.debtRank = 0
          /\ ~node.isFailed
          /\ node.stressLevel = 0
          /\ node.A_interbank = ColumnSum(nw.adj, n, k, 0)
  /\ total = SumEInitial(nw.nodes, n - 1)
  /\ \E seed \in 0 .. (NumSeeds - 1) : nw.adj = Generated[n][seed].adj
  /\ selected = Null

\* C11: generateNetwork discards the prior snapshot entirely: whatever runs
\* and selections came before, the state it leaves has every bank at its
\* position with E = E_initial, debtRank 0, not failed and Healthy,
\* totalInitialCapital the sum of E_initial over the new banks only, adj
\* the new exposures only, and no bank selected.
C11_GenerateDiscards ==
  [][GenerateNetwork =>
       Fresh(network', totalInitialCapital', selectedBankId', N')]_vars

\* A freshly generated network: no run on it yet, the run control enabled.
C11_Witness ==
  /\ pc = "idle"
  /\ runs = 0
  /\ ~simulateBtnDisabled
  /\ network.nodes # <<>>
  /\ Fresh(network, totalInitialCapital, selectedBankId, N)

\* Between the rank update and the re-evaluation of a pass: the change of
\* the rank of the bank at position k in this pass (previousRanks holds the
\* ranks the pass started with, line 454).
PassChange(k) == Abs(nodes[k].debtRank - previousRanks[k])

\* C12 as stated: after a pass the loop stops exactly when every bank's
\* debtRank change in that pass was below DEBT_RANK_TOLERANCE or the pass
\* count has reached MAX_ITERATIONS; otherwise another pass is executed.
C12_StopsBelowTolerance ==
  [][pc = "reeval" =>
       (~LoopContinues(hasConverged', iterations') <=>
          \/ \A k \in DOMAIN nodes : PassChange(k) < DEBT_RANK_TOLERANCE
          \/ iterations' >= MAX_ITERATIONS)]_vars

\* C12, amended: after a pass the loop stops exactly when no bank's debtRank
\* change in that pass exceeded DEBT_RANK_TOLERANCE (a change equal to the
\* tolerance stops it too) or the pass count has reached MAX_ITERATIONS;
\* otherwise another pass is executed.
C12_ConvergenceRule ==
  [][pc = "reeval" =>
       (~LoopContinues(hasConverged', iterations') <=>
          \/ \A k \in DOMAIN nodes : PassChange(k) <= DEBT_RANK_TOLERANCE
          \/ iterations' >= MAX_ITERATIONS)]_vars

\* A pass whose largest rank change is exactly the tolerance, with the
\* convergence flag left set by the rank update.
C12_Witness ==
  /\ pc = "reeval"
  /\ hasConverged
  /\ \E k \in DOMAIN nodes : PassChange(k) = DEBT_RANK_TOLERANCE
  /\ \A k \in DOMAIN nodes : PassChange(k) <= DEBT_RANK_TOLERANCE

\* C13: in the result of any run, a bank with debtRank >= 0.9999 is Failed
\* with debtRank 1.0 and E 0; every other bank is not failed, has
\* E = E_initial * (1 - debtRank) > 0, and is Stressed exactly when its
\* debtRank exceeds 0.4 and Healthy otherwise.
C13_FinalClassification ==
  RunDone =>
    \A k \in DOMAIN network.nodes :
      LET node == network.nodes[k]
      IN IF node.debtRank >= FAIL_RANK
         THEN /\ node.isFailed
              /\ node.stressLevel = 2
              /\ node.debtRank = Scale
              /\ node.E = 0
         ELSE /\ ~node.isFailed
              /\ node.E = node.E_initial * (Scale - node.debtRank)
              /\ node.E > 0
              /\ node.stressLevel =
                   (IF node.debtRank > STRESS_RANK THEN 1 ELSE 0)

\* A result with a Failed bank, a Healthy bank, and a Stressed bank whose
\* debtRank lies between the thresholds 0.4 and 0.5.
C13_Witness ==
  /\ RunDone
  /\ \E k \in DOMAIN network.nodes : network.nodes[k].isFailed
  /\ \E k \in DOMAIN network.nodes : network.nodes[k].stressLevel = 0
  /\ \E k \in DOMAIN network.nodes :
       /\ network.nodes[k].debtRank > STRESS_RANK
       /\ network.nodes[k].debtRank <= PHASE1_STRESS_RANK
       /\ network.nodes[k].stressLevel = 1

\* C14: at the start of every runSimulation, after any sequence of generate
\* and run operations, the bank stored at position k of network.nodes has
\* id k (stated for the state in which a run has just taken its working
\* copy and applied Phase 1; network is still as the run found it).
C14_IdIsPosition ==
  AfterPhase1 =>
    \A k \in DOMAIN network.nodes : network.nodes[k].id = k

\* C15: in the first run on a freshly generated network, for every shock
\* type, Phase 2 executes exactly one pass, and every bank's final debtRank
\* equals its Phase 1 debtRank, except that a Phase 1 rank >= 0.9999 is
\* raised to 1.0.
C15_FirstRunOnePass ==
  (RunDone /\ runs = 1) =>
    /\ iterations = 1
    /\ \A k \in DOMAIN network.nodes :
         LET node == network.nodes[k]
         IN node.debtRank =
              (IF initialRanks[node.id] >= FAIL_RANK THEN Scale
               ELSE initialRanks[node.id])

\* The result of a first run in which a bank failed in Phase 1, one of its
\* creditors survived with a rank strictly between 0 and 1, and the loop
\* made its single pass.
C15_Witness ==
  /\ RunDone
  /\ runs = 1
  /\ iterations = 1
  /\ \E i, j \in Ids(N) :
       /\ network.adj[i][j] > 0
       /\ initialRanks[i] = Scale
       /\ initialRanks[j] > 0
       /\ initialRanks[j] < Scale
       /\ NodeById(network.nodes, j).debtRank = initialRanks[j]

\* C16: a stress test can only be started after a network has been
\* generated: the run control stays disabled from init until the first
\* generateNetwork has completed, and in every state in which runSimulation
\* executes network.nodes holds N banks and adj is an N x N matrix.
C16_RunNeedsNetwork ==
  /\ simulateBtnDisabled =>
       /\ network.nodes = <<>>
       /\ pc = "idle"
       /\ runs = 0
  /\ pc # "idle" =>
       /\ DOMAIN network.nodes = Ids(N)
       /\ DOMAIN nodes = Ids(N)
       /\ DOMAIN network.adj = Ids(N)
       /\ \A i \in Ids(N) : DOMAIN network.adj[i] = Ids(N)

\* A run executing its first pass on a generated network.
C16_Witness ==
  /\ pc = "reeval"
  /\ iterations = 1
  /\ ~simulateBtnDisabled
  /\ Cardinality(DOMAIN network.nodes) = N
  /\ N > 0

Next ==
  \/ GenerateNetwork
  \/ SelectBank
  \/ RunSimulation
  \/ RankUpdate
  \/ ReEvaluate
  \/ Finalize

Spec == Init /\ [][Next]_vars

\* The program built with any bank count from 0 to NBanks.
ConfigInit == N \in 0 .. NBanks /\ InitState

\* runSimulation is one synchronous call: once started, every step of it
\* is taken.
FairSpec ==
  Spec /\ WF_vars(RankUpdate) /\ WF_vars(ReEvaluate) /\ WF_vars(Finalize)

ConfigSpec == ConfigInit /\ [][Next]_vars
====
